---- MODULE Spec2Model ----
(***************************************************************************)
(* Model of the Binance futures order toolkit: the validators of utils.py, *)
(* the lazily created client of config.py, the single-shot executors       *)
(* (market, limit, stop-limit), the dual-order executor (oco) and the      *)
(* sequenced executors (twap, grid), each with its CLI main().             *)
(*                                                                         *)
(* Python floats are modelled as exact rationals extended with inf, -inf   *)
(* and nan; binary rounding of finite values is not modelled.  Strings are *)
(* sequences of one-character strings.                                     *)
(***************************************************************************)
EXTENDS Integers, Sequences, FiniteSets, TLC

(***************************************************************************)
(* Bounds of the model.                                                    *)
(***************************************************************************)
MaxSlices == 5
MaxGridCount == 5

(***************************************************************************)
(* Python float values.                                                    *)
(***************************************************************************)
Abs(x) == IF x < 0 THEN -x ELSE x

Sgn(x) == IF x < 0 THEN -1 ELSE IF x > 0 THEN 1 ELSE 0

RECURSIVE GCD(_, _)
GCD(a, b) == IF b = 0 THEN a ELSE GCD(b, a % b)

Reduced(n, d, g) == [cls |-> "fin", n |-> Sgn(n) * (Abs(n) \div g), d |-> d \div g]

\* the finite float n/d (d > 0), in lowest terms
Fin(n, d) == Reduced(n, d, GCD(Abs(n), d))

NaN == [cls |-> "nan", n |-> 0, d |-> 1]

\* inf (s = 1) and -inf (s = -1)
Inf(s) == [cls |-> "inf", n |-> s, d |-> 1]

Zero == Fin(0, 1)

IsFinite(x) == x.cls = "fin"

\* x < y on floats: every comparison with nan is False
FLt(x, y) ==
    CASE x.cls = "nan" \/ y.cls = "nan" -> FALSE
      [] x.cls = "inf" /\ y.cls = "inf" -> x.n < y.n
      [] x.cls = "inf" -> x.n < 0
      [] y.cls = "inf" -> y.n > 0
      [] OTHER -> x.n * y.d < y.n * x.d

\* x == y on floats: nan is not equal to itself
FEq(x, y) == x.cls # "nan" /\ y.cls # "nan" /\ x = y

FLe(x, y) == FLt(x, y) \/ FEq(x, y)

FGe(x, y) == FLe(y, x)

FGt(x, y) == FLt(y, x)

\* x + y on floats
FAdd(x, y) ==
    CASE x.cls = "nan" \/ y.cls = "nan" -> NaN
      [] x.cls = "inf" /\ y.cls = "inf" -> IF x.n = y.n THEN x ELSE NaN
      [] x.cls = "inf" -> x
      [] y.cls = "inf" -> y
      [] OTHER -> Fin(x.n * y.d + y.n * x.d, x.d * y.d)

FNeg(x) == [x EXCEPT !.n = -x.n]

FSub(x, y) == FAdd(x, FNeg(y))

\* x * k for a float x and an int k
FMulInt(x, k) ==
    CASE x.cls = "nan" -> NaN
      [] x.cls = "inf" -> IF k = 0 THEN NaN ELSE Inf(x.n * Sgn(k))
      [] OTHER -> Fin(x.n * k, x.d)

\* x / k for a float x and a non-zero int k (k = 0 raises ZeroDivisionError)
FDivInt(x, k) ==
    CASE x.cls = "nan" -> NaN
      [] x.cls = "inf" -> Inf(x.n * Sgn(k))
      [] OTHER -> Fin(x.n * Sgn(k), x.d * Abs(k))

(***************************************************************************)
(* Python str values and the builtins the validators use.                  *)
(***************************************************************************)
Lower26 == <<"a","b","c","d","e","f","g","h","i","j","k","l","m",
             "n","o","p","q","r","s","t","u","v","w","x","y","z">>

Upper26 == <<"A","B","C","D","E","F","G","H","I","J","K","L","M",
             "N","O","P","Q","R","S","T","U","V","W","X","Y","Z">>

UpperChar(c) ==
    IF \E k \in 1..26 : Lower26[k] = c
    THEN Upper26[CHOOSE k \in 1..26 : Lower26[k] = c]
    ELSE c

\* str.upper()
StrUpper(s) == [k \in 1..Len(s) |-> UpperChar(s[k])]

LowerChar(c) ==
    IF \E k \in 1..26 : Upper26[k] = c
    THEN Lower26[CHOOSE k \in 1..26 : Upper26[k] = c]
    ELSE c

\* str.lower()
StrLower(s) == [k \in 1..Len(s) |-> LowerChar(s[k])]

RECURSIVE LStrip(_)
LStrip(s) == IF s # << >> /\ Head(s) = " " THEN LStrip(Tail(s)) ELSE s

RECURSIVE RStrip(_)
RStrip(s) ==
    IF s # << >> /\ s[Len(s)] = " " THEN RStrip(SubSeq(s, 1, Len(s) - 1)) ELSE s

\* str.strip()
StrStrip(s) == RStrip(LStrip(s))

\* str.endswith(suffix)
EndsWith(s, suffix) ==
    /\ Len(s) >= Len(suffix)
    /\ SubSeq(s, Len(s) - Len(suffix) + 1, Len(s)) = suffix

Digits == <<"0","1","2","3","4","5","6","7","8","9">>

IsDigit(c) == \E k \in 1..10 : Digits[k] = c

DigitVal(c) == (CHOOSE k \in 1..10 : Digits[k] = c) - 1

IsDigits(s) == \A k \in 1..Len(s) : IsDigit(s[k])

RECURSIVE DigitsVal(_)
DigitsVal(s) ==
    IF s = << >> THEN 0
    ELSE 10 * DigitsVal(SubSeq(s, 1, Len(s) - 1)) + DigitVal(s[Len(s)])

RECURSIVE Pow10(_)
Pow10(k) == IF k = 0 THEN 1 ELSE 10 * Pow10(k - 1)

\* the decimal literal of a natural number
RECURSIVE DecStr(_)
DecStr(n) ==
    IF n < 10 THEN <<Digits[n + 1]>>
    ELSE Append(DecStr(n \div 10), Digits[(n % 10) + 1])

\* a raised ValueError, as the result of a conversion or validator
Err == [cls |-> "ValueError"]

\* a string without its leading sign
Unsigned(s) == IF s # << >> /\ Head(s) \in {"-", "+"} THEN Tail(s) ELSE s

IsNegative(s) == s # << >> /\ Head(s) = "-"

IntOfDigits(body, neg) ==
    IF body # << >> /\ IsDigits(body)
    THEN [cls |-> "int", val |-> IF neg THEN -DigitsVal(body) ELSE DigitsVal(body)]
    ELSE Err

IntOfStripped(s) == IntOfDigits(Unsigned(s), IsNegative(s))

\* int(value) for a str: surrounding blanks, an optional sign, then digits
ParseInt(value) == IntOfStripped(StrStrip(value))

\* the position of the first "." of body, Len(body) + 1 when it has none
PointPos(body) ==
    IF \A k \in 1..Len(body) : body[k] # "." THEN Len(body) + 1
    ELSE CHOOSE k \in 1..Len(body) :
           body[k] = "." /\ \A j \in 1..(k - 1) : body[j] # "."

\* the float with integer digits ip and fraction digits fp
FloatOfParts(ip, fp, neg) ==
    IF IsDigits(ip) /\ IsDigits(fp) /\ Len(ip) + Len(fp) > 0
    THEN Fin((IF neg THEN -1 ELSE 1) * (DigitsVal(ip) * Pow10(Len(fp)) + DigitsVal(fp)),
             Pow10(Len(fp)))
    ELSE Err

FloatOfDecimal(body, p, neg) ==
    FloatOfParts(SubSeq(body, 1, p - 1), SubSeq(body, p + 1, Len(body)), neg)

FloatOfWord(word, body, neg) ==
    CASE word \in {<<"i","n","f">>, <<"i","n","f","i","n","i","t","y">>} ->
           Inf(IF neg THEN -1 ELSE 1)
      [] word = <<"n","a","n">> -> NaN
      [] OTHER -> FloatOfDecimal(body, PointPos(body), neg)

FloatOfBody(body, neg) == FloatOfWord(StrLower(body), body, neg)

FloatOfStripped(s) == FloatOfBody(Unsigned(s), IsNegative(s))

\* float(value) for a str: surrounding blanks, an optional sign, then
\* "inf", "infinity", "nan" (any case) or decimal digits with at most one point
ParseFloat(value) == FloatOfStripped(StrStrip(value))

(***************************************************************************)
(* utils.py: the validators.  Each returns the validated value, or Err     *)
(* when the code raises ValueError.                                        *)
(***************************************************************************)
USDT == <<"U","S","D","T">>

\* variant: no minimum length
CheckSymbol_NoLength(symbol, s) ==
    IF symbol = << >> THEN Err
    ELSE IF ~EndsWith(s, USDT) THEN Err
    ELSE [cls |-> "str", val |-> s]

CheckSymbol(symbol, s) ==
    IF symbol = << >> THEN Err
    ELSE IF ~EndsWith(s, USDT) THEN Err
    ELSE IF Len(s) < 5 THEN Err
    ELSE [cls |-> "str", val |-> s]

validate_symbol(symbol) == CheckSymbol(symbol, StrStrip(StrUpper(symbol)))

CheckQuantity(qty) ==
    IF qty = Err THEN Err
    ELSE IF FLe(qty, Zero) THEN Err
    ELSE qty

validate_quantity(quantity) == CheckQuantity(ParseFloat(quantity))

CheckPrice(prc) ==
    IF prc = Err THEN Err
    ELSE IF FLe(prc, Zero) THEN Err
    ELSE prc

validate_price(price) == CheckPrice(ParseFloat(price))

BUY == <<"B","U","Y">>

SELL == <<"S","E","L","L">>

CheckSide(s) ==
    IF s \notin {BUY, SELL} THEN Err
    ELSE [cls |-> "str", val |-> s]

validate_side(side) == CheckSide(StrStrip(StrUpper(side)))

CheckPositiveInt(val) ==
    IF val = Err THEN Err
    ELSE IF val.val <= 0 THEN Err
    ELSE val

validate_positive_int(value) == CheckPositiveInt(ParseInt(value))

\* TRUE when validate_grid_params returns, FALSE when it raises ValueError
validate_grid_params(lower_price, upper_price, grid_count) ==
    IF FGe(lower_price, upper_price) THEN FALSE
    ELSE IF grid_count < 2 THEN FALSE
    ELSE TRUE


(***************************************************************************)
(* Inputs.  Raw command-line arguments are strings; the arguments of a     *)
(* direct call of an executor are already typed and arbitrary.             *)
(***************************************************************************)
BTCUSDT == <<"B","T","C","U","S","D","T">>

SymbolArgs ==
    { <<"b","t","c","u","s","d","t">>, <<"B","T","C">>, << >>,
      <<"B","T","C","U","S","D">>, USDT }

\* a symbol typed with surrounding blanks and mixed case
PaddedSymbolArgs == { <<" "," ","b","t","c","U","S","D","T"," ">> }

SideArgs == { BUY, <<"s","e","l","l">>, <<"H","O","L","D">> }

QuantityArgs == { <<"0",".","1">>, <<"0">>, <<"n","a","n">> }

PriceArgs == { DecStr(50000), DecStr(52000), <<"-","5">>, <<"n","a","n">> }

\* twap.py main: num_slices must not exceed 100
MaxCliSlices == 100

\* grid.py main: grid_count must not exceed 50
MaxCliGrids == 50

SlicesArgs ==
    {DecStr(k) : k \in 0..MaxSlices}
        \cup {DecStr(MaxCliSlices), DecStr(MaxCliSlices + 1), <<"a","b","c">>}

GridCountArgs ==
    {DecStr(k) : k \in 1..MaxGridCount}
        \cup {DecStr(MaxCliGrids), DecStr(MaxCliGrids + 1), <<"1",".","5">>}

IntervalArgs == { <<"1">>, <<"0">> }

Strategies == {"market", "limit", "stop_limit", "oco", "twap", "grid"}

\* the number of command-line arguments main() requires (len(sys.argv) - 1)
Argc(s) == IF s = "market" THEN 3 ELSE IF s = "limit" THEN 4 ELSE 5

CliArgs(s) ==
    CASE s = "market" ->
           {<<y, d, q>> : y \in SymbolArgs \cup PaddedSymbolArgs,
                          d \in SideArgs, q \in QuantityArgs}
      [] s = "limit" ->
           {<<y, d, q, p>> : y \in SymbolArgs, d \in SideArgs,
                             q \in {<<"0",".","1">>, <<"0">>}, p \in PriceArgs}
      [] s = "stop_limit" ->
           {<<y, d, q, p1, p2>> : y \in SymbolArgs, d \in {BUY, <<"H","O","L","D">>},
                                  q \in {<<"0",".","1">>}, p1 \in PriceArgs, p2 \in PriceArgs}
      [] s = "oco" ->
           {<<y, d, q, p1, p2>> : y \in SymbolArgs, d \in SideArgs,
                                  q \in {<<"0",".","1">>, <<"0">>}, p1 \in PriceArgs, p2 \in PriceArgs}
      [] s = "twap" ->
           {<<y, d, q, n, t>> : y \in SymbolArgs, d \in SideArgs, q \in QuantityArgs,
                                n \in SlicesArgs, t \in IntervalArgs}
      [] s = "grid" ->
           {<<y, q, p1, p2, n>> : y \in SymbolArgs, q \in QuantityArgs,
                                  p1 \in PriceArgs, p2 \in PriceArgs, n \in GridCountArgs}

\* a command line with the wrong number of arguments
ShortArgs == { <<BTCUSDT, BUY>> }

DirectQuantities == { Fin(1, 10), Zero, Fin(-1, 10) }

DirectPrices == { Fin(50000, 1), Fin(52000, 1) }

\* the bounds of a grid passed to execute_grid_strategy: any floats
DirectGridBounds == DirectPrices \cup { Fin(-5, 2), Fin(100001, 2) }

DirectParams(s) ==
    CASE s = "market" ->
           {[symbol |-> BTCUSDT, side |-> d, quantity |-> q] :
               d \in {BUY, SELL}, q \in DirectQuantities}
      [] s = "limit" ->
           {[symbol |-> BTCUSDT, side |-> d, quantity |-> q, price |-> p] :
               d \in {BUY, SELL}, q \in DirectQuantities, p \in DirectPrices}
      [] s = "stop_limit" ->
           {[symbol |-> BTCUSDT, side |-> d, quantity |-> Fin(1, 10),
             stop_price |-> p1, limit_price |-> p2] :
               d \in {BUY, SELL}, p1 \in DirectPrices, p2 \in DirectPrices}
      [] s = "oco" ->
           {[symbol |-> BTCUSDT, side |-> d, quantity |-> q,
             take_profit_price |-> p1, stop_loss_price |-> p2] :
               d \in {BUY, SELL}, q \in DirectQuantities,
               p1 \in DirectPrices, p2 \in DirectPrices}
      [] s = "twap" ->
           {[symbol |-> BTCUSDT, side |-> d, total_quantity |-> q,
             num_slices |-> n, interval_seconds |-> t] :
               d \in {BUY, SELL}, q \in DirectQuantities,
               n \in (-1)..MaxSlices, t \in {1, -1}}
           \cup {[symbol |-> BTCUSDT, side |-> BUY, total_quantity |-> Fin(1, 10),
                  num_slices |-> MaxCliSlices + 1, interval_seconds |-> 1]}
      [] s = "grid" ->
           {[symbol |-> BTCUSDT, quantity_per_grid |-> q,
             lower_price |-> p1, upper_price |-> p2, grid_count |-> n] :
               q \in DirectQuantities, p1 \in DirectGridBounds,
               p2 \in DirectGridBounds, n \in 0..MaxGridCount}
           \cup {[symbol |-> BTCUSDT, quantity_per_grid |-> Fin(1, 10),
                  lower_price |-> Fin(50000, 1), upper_price |-> Fin(52000, 1),
                  grid_count |-> MaxCliGrids + 1]}

(***************************************************************************)
(* The main() functions: validation of the command line.                   *)
(***************************************************************************)
\* the checks main() makes after the validators, and the executor's
\* arguments; Err when a validator or a check raises ValueError
MarketArgs(symbol, side, quantity) ==
    IF Err \in {symbol, side, quantity} THEN Err
    ELSE [symbol |-> symbol.val, side |-> side.val, quantity |-> quantity]

LimitArgs(symbol, side, quantity, price) ==
    IF Err \in {symbol, side, quantity, price} THEN Err
    ELSE [symbol |-> symbol.val, side |-> side.val, quantity |-> quantity, price |-> price]

StopLimitArgs(symbol, side, quantity, stop_price, limit_price) ==
    IF Err \in {symbol, side, quantity, stop_price, limit_price} THEN Err
    ELSE [symbol |-> symbol.val, side |-> side.val, quantity |-> quantity,
          stop_price |-> stop_price, limit_price |-> limit_price]

OcoArgs(symbol, side, quantity, take_profit_price, stop_loss_price) ==
    IF Err \in {symbol, side, quantity, take_profit_price, stop_loss_price} THEN Err
    ELSE IF side.val = SELL /\ FLe(take_profit_price, stop_loss_price) THEN Err
    ELSE IF side.val # SELL /\ FGe(take_profit_price, stop_loss_price) THEN Err
    ELSE [symbol |-> symbol.val, side |-> side.val, quantity |-> quantity,
          take_profit_price |-> take_profit_price, stop_loss_price |-> stop_loss_price]

\* variant: main() of twap.py without the check of num_slices > 100
TwapArgs_Uncapped(symbol, side, total_quantity, num_slices, interval_seconds) ==
    IF Err \in {symbol, side, total_quantity, num_slices, interval_seconds} THEN Err
    ELSE [symbol |-> symbol.val, side |-> side.val, total_quantity |-> total_quantity,
          num_slices |-> num_slices.val, interval_seconds |-> interval_seconds.val]

TwapArgs(symbol, side, total_quantity, num_slices, interval_seconds) ==
    IF Err \in {symbol, side, total_quantity, num_slices, interval_seconds} THEN Err
    ELSE IF num_slices.val > MaxCliSlices THEN Err
    ELSE [symbol |-> symbol.val, side |-> side.val, total_quantity |-> total_quantity,
          num_slices |-> num_slices.val, interval_seconds |-> interval_seconds.val]

GridArgs(symbol, quantity_per_grid, lower_price, upper_price, grid_count) ==
    IF Err \in {symbol, quantity_per_grid, lower_price, upper_price, grid_count} THEN Err
    ELSE IF grid_count.val > MaxCliGrids THEN Err
    ELSE IF ~validate_grid_params(lower_price, upper_price, grid_count.val) THEN Err
    ELSE [symbol |-> symbol.val, quantity_per_grid |-> quantity_per_grid,
          lower_price |-> lower_price, upper_price |-> upper_price,
          grid_count |-> grid_count.val]

\* the try-block of main() up to the call of the executor: the executor's
\* arguments, or Err when a ValueError is raised
MainValidate(s, av) ==
    CASE s = "market" ->
           MarketArgs(validate_symbol(av[1]), validate_side(av[2]),
                      validate_quantity(av[3]))
      [] s = "limit" ->
           LimitArgs(validate_symbol(av[1]), validate_side(av[2]),
                     validate_quantity(av[3]), validate_price(av[4]))
      [] s = "stop_limit" ->
           StopLimitArgs(validate_symbol(av[1]), validate_side(av[2]),
                         validate_quantity(av[3]), validate_price(av[4]),
                         validate_price(av[5]))
      [] s = "oco" ->
           OcoArgs(validate_symbol(av[1]), validate_side(av[2]),
                   validate_quantity(av[3]), validate_price(av[4]),
                   validate_price(av[5]))
      [] s = "twap" ->
           TwapArgs(validate_symbol(av[1]), validate_side(av[2]),
                    validate_quantity(av[3]), validate_positive_int(av[4]),
                    validate_positive_int(av[5]))
      [] s = "grid" ->
           GridArgs(validate_symbol(av[1]), validate_quantity(av[2]),
                    validate_price(av[3]), validate_price(av[4]),
                    validate_positive_int(av[5]))

(***************************************************************************)
(* Order requests (the keyword arguments of futures_create_order) and the  *)
(* derived values of the sequenced executors.                              *)
(***************************************************************************)
MarketRequest(symbol, side, quantity) ==
    [symbol |-> symbol, side |-> side, type |-> "MARKET", quantity |-> quantity]

LimitRequest(symbol, side, quantity, price) ==
    [symbol |-> symbol, side |-> side, type |-> "LIMIT", timeInForce |-> "GTC",
     quantity |-> quantity, price |-> price]

\* variant: the stop price in the price field, the limit price as the trigger
StopLimitRequest_Swapped(symbol, side, quantity, stop_price, limit_price) ==
    [symbol |-> symbol, side |-> side, type |-> "STOP", timeInForce |-> "GTC",
     quantity |-> quantity, price |-> stop_price, stopPrice |-> limit_price]

StopLimitRequest(symbol, side, quantity, stop_price, limit_price) ==
    [symbol |-> symbol, side |-> side, type |-> "STOP", timeInForce |-> "GTC",
     quantity |-> quantity, price |-> limit_price, stopPrice |-> stop_price]

\* variant: the take-profit order is placed on the opposite side
TakeProfitRequest_Inverted(symbol, side, take_profit_price) ==
    [symbol |-> symbol, side |-> IF side = BUY THEN SELL ELSE BUY,
     type |-> "TAKE_PROFIT_MARKET",
     stopPrice |-> take_profit_price, closePosition |-> "true"]

TakeProfitRequest(symbol, side, take_profit_price) ==
    [symbol |-> symbol, side |-> side, type |-> "TAKE_PROFIT_MARKET",
     stopPrice |-> take_profit_price, closePosition |-> "true"]

StopLossRequest(symbol, side, stop_loss_price) ==
    [symbol |-> symbol, side |-> side, type |-> "STOP_MARKET",
     stopPrice |-> stop_loss_price, closePosition |-> "true"]

\* variant: every slice carries the total quantity
QuantityPerSlice_Undivided(total_quantity, num_slices) == total_quantity

\* quantity_per_slice = total_quantity / num_slices (num_slices # 0)
QuantityPerSlice(total_quantity, num_slices) == FDivInt(total_quantity, num_slices)

\* variant: the levels start one step above lower_price
GridLevels_FromOne(lower_price, step, grid_count) ==
    [k \in 1..grid_count |-> FAdd(lower_price, FMulInt(step, k))]

\* levels = [lower_price + (step * i) for i in range(grid_count)]
GridLevels(lower_price, step, grid_count) ==
    [k \in 1..grid_count |-> FAdd(lower_price, FMulInt(step, k - 1))]

\* variant: the range is divided by grid_count
calculate_grid_levels_StepByCount(lower_price, upper_price, grid_count) ==
    IF grid_count = 1 THEN <<FDivInt(FAdd(lower_price, upper_price), 2)>>
    ELSE GridLevels(lower_price,
                    FDivInt(FSub(upper_price, lower_price), grid_count),
                    grid_count)

calculate_grid_levels(lower_price, upper_price, grid_count) ==
    IF grid_count = 1 THEN <<FDivInt(FAdd(lower_price, upper_price), 2)>>
    ELSE GridLevels(lower_price,
                    FDivInt(FSub(upper_price, lower_price), grid_count - 1),
                    grid_count)

(***************************************************************************)
(* State.                                                                  *)
(***************************************************************************)
VARIABLES
    pc,                 \* position of the current run
    entry,              \* "cli": main() of a fresh process; "direct": the executor is called
    strategy,           \* which module runs
    argv,               \* sys.argv[1:] of a CLI run
    params,             \* the arguments of the executor
    client,             \* config.client: "None", "Unpinged" (ping failed) or "Ready"
    calls,              \* the network calls of this run, in order
    live,               \* the orders the exchange accepted in this run
    orders,             \* the executor's local list of responses
    i,                  \* number of loop iterations started and finished
    quantity_per_slice, \* local of execute_twap_strategy
    grid_levels,        \* local of execute_grid_strategy
    log,                \* bot.log records of this run
    exc,                \* the exception in flight or raised to the caller
    ret,                \* the value the executor returned
    exit_code,          \* exit status of the CLI process, -1 while it runs
    sleeps,             \* the time.sleep calls of this run, in order
    printed             \* the closing message main() printed, "none" before

vars == <<pc, entry, strategy, argv, params, client, calls, live, orders, i,
          quantity_per_slice, grid_levels, log, exc, ret, exit_code, sleeps, printed>>

NoParams == [symbol |-> << >>]

Init ==
    /\ pc = "start"
    /\ entry = "cli"
    /\ strategy = "market"
    /\ argv = << >>
    /\ params = NoParams
    /\ client = "None"
    /\ calls = << >>
    /\ live = << >>
    /\ orders = << >>
    /\ i = 0
    /\ quantity_per_slice = Zero
    /\ grid_levels = << >>
    /\ log = << >>
    /\ exc = "None"
    /\ ret = << >>
    /\ exit_code = -1
    /\ sleeps = << >>
    /\ printed = "none"

RunReset ==
    /\ calls' = << >>
    /\ live' = << >>
    /\ orders' = << >>
    /\ i' = 0
    /\ quantity_per_slice' = Zero
    /\ grid_levels' = << >>
    /\ log' = << >>
    /\ exc' = "None"
    /\ ret' = << >>
    /\ exit_code' = -1
    /\ sleeps' = << >>
    /\ printed' = "none"

\* where control goes when the executor raises / returns
ExcPc == IF entry = "cli" THEN "main_except" ELSE "done"

RetPc == IF entry = "cli" THEN "main_print" ELSE "done"

\* a log record
Rec(level, msg, k, n) == [level |-> level, msg |-> msg, k |-> k, n |-> n]

(***************************************************************************)
(* The exchange client (external): what one call can do.                   *)
(***************************************************************************)
CreateErrors == {"BinanceAPIException", "BinanceOrderException", "ConnectionError"}

\* "response": a full order response; "partial": a response without orderId
CreateOutcomes == {"response", "partial"} \cup CreateErrors

Response(id, r) ==
    IF r = "response" THEN [orderId |-> id, status |-> "NEW"] ELSE [status |-> "NEW"]

\* the exchange's orders after it accepted request req
Placed(lv, req) == Append(lv, [orderId |-> Len(lv) + 1, req |-> req])

\* the record of a futures_create_order call
CreateCall(req, step, r) ==
    [op |-> "futures_create_order", req |-> req, step |-> step,
     result |-> IF r \in CreateErrors THEN r ELSE "ok"]

\* the except clause that catches exception e in an executor
Handler(e) ==
    CASE e = "BinanceAPIException" -> "api_error"
      [] e = "BinanceOrderException" -> "order_error"
      [] OTHER -> "unexpected_error"

(***************************************************************************)
(* A new process runs main() once, or calls executors directly.            *)
(***************************************************************************)
StartCLI ==
    /\ pc = "start"
    /\ \E s \in Strategies : \E av \in CliArgs(s) \cup ShortArgs :
         /\ strategy' = s
         /\ argv' = av
    /\ entry' = "cli"
    /\ params' = NoParams
    /\ client' = "None"
    /\ pc' = "main"
    /\ RunReset

\* a direct call, the first of a process or after an earlier direct call of
\* the same process, whose config.client survives
CallDirect ==
    /\ pc = "start" \/ (pc = "done" /\ entry = "direct")
    /\ \E s \in Strategies : \E a \in DirectParams(s) :
         /\ strategy' = s
         /\ params' = a
    /\ entry' = "direct"
    /\ argv' = << >>
    /\ client' = client
    /\ pc' = "get_client"
    /\ RunReset

\* main(): the argument count check and the validation of the arguments
Main ==
    /\ pc = "main"
    /\ IF Len(argv) # Argc(strategy)
       THEN /\ exit_code' = 1
            /\ pc' = "done"
            /\ UNCHANGED <<params, exc>>
       ELSE LET v == MainValidate(strategy, argv)
            IN  IF v = Err
                THEN /\ exc' = "ValueError"
                     /\ pc' = "main_except"
                     /\ UNCHANGED <<params, exit_code>>
                ELSE /\ params' = v
                     /\ pc' = "get_client"
                     /\ UNCHANGED <<exc, exit_code>>
    /\ UNCHANGED <<entry, strategy, argv, client, calls, live, orders, i,
                   quantity_per_slice, grid_levels, log, ret, sleeps, printed>>

(***************************************************************************)
(* config.py: BinanceConfig.get_client, the first statement of every       *)
(* executor.                                                               *)
(***************************************************************************)
AfterGetClient ==
    CASE strategy \in {"twap", "grid"} -> "prepare"
      [] strategy = "oco" -> "take_profit"
      [] OTHER -> "single"

GetClient ==
    /\ pc = "get_client"
    /\ IF client = "None"
       THEN \E r \in {"ok", "ctor_raises", "BinanceAPIException", "ConnectionError"} :
              IF r = "ctor_raises"
              THEN /\ exc' = "ConnectionError"
                   /\ pc' = ExcPc
                   /\ UNCHANGED <<client, calls>>
              ELSE /\ calls' = Append(calls, [op |-> "futures_ping", result |-> r])
                   /\ client' = IF r = "ok" THEN "Ready" ELSE "Unpinged"
                   /\ exc' = IF r = "ok" THEN exc ELSE r
                   /\ pc' = IF r = "ok" THEN AfterGetClient ELSE ExcPc
       ELSE /\ pc' = AfterGetClient
            /\ UNCHANGED <<client, calls, exc>>
    /\ UNCHANGED <<entry, strategy, argv, params, live, orders, i,
                   quantity_per_slice, grid_levels, log, ret, exit_code, sleeps, printed>>

(***************************************************************************)
(* advanced/twap.py and advanced/grid.py: the sequenced executors.         *)
(***************************************************************************)
\* the N of the "k/N" log messages
Total == IF strategy = "twap" THEN params.num_slices ELSE params.grid_count

\* the number of iterations of the for loop
LoopLen == IF strategy = "twap" THEN params.num_slices ELSE Len(grid_levels)

\* the for loop is exhausted after k iterations of n
LoopFinished(k, n) == k >= n

\* the request of iteration k (0-based)
SequencedRequest(k) ==
    IF strategy = "twap"
    THEN MarketRequest(params.symbol, params.side, quantity_per_slice)
    ELSE LimitRequest(params.symbol, BUY, params.quantity_per_grid, grid_levels[k + 1])

\* variant: the index of the failing step reported as the completed count
CompletedCount_FailingIndex(os) == Len(os) + 1

\* the count of the "Completed ... out of ..." warning
CompletedCount(os) == Len(os)

\* variant: the error is logged and swallowed, the loop goes on
ExceptSequenced_Swallow(e, os, lv) ==
    /\ log' = log \o <<Rec("error", Handler(e), Len(os) + 1, Total),
                       Rec("warning", "completed_before_error", CompletedCount(os), Total)>>
    /\ live' = lv
    /\ exc' = exc
    /\ pc' = "loop"

\* variant: the orders placed so far are cancelled before the re-raise
ExceptSequenced_Cancel(e, os, lv) ==
    /\ log' = log \o <<Rec("error", Handler(e), Len(os) + 1, Total),
                       Rec("warning", "completed_before_error", CompletedCount(os), Total)>>
    /\ live' = << >>
    /\ exc' = e
    /\ pc' = ExcPc

\* the except clauses of a sequenced executor, entered with exception e, the
\* list os and the orders lv placed so far: log the error and the progress,
\* then re-raise; the placed orders are left as they are
ExceptSequenced(e, os, lv) ==
    /\ log' = log \o <<Rec("error", Handler(e), Len(os) + 1, Total),
                       Rec("warning", "completed_before_error", CompletedCount(os), Total)>>
    /\ live' = lv
    /\ exc' = e
    /\ pc' = ExcPc

\* the statements between get_binance_client() and the loop
Prepare ==
    /\ pc = "prepare"
    /\ IF strategy = "twap"
       THEN IF params.num_slices = 0
            THEN /\ exc' = "ZeroDivisionError"
                 /\ pc' = ExcPc
                 /\ UNCHANGED <<quantity_per_slice, grid_levels>>
            ELSE /\ quantity_per_slice' =
                       QuantityPerSlice(params.total_quantity, params.num_slices)
                 /\ pc' = "loop"
                 /\ UNCHANGED <<exc, grid_levels>>
       ELSE IF ~validate_grid_params(params.lower_price, params.upper_price,
                                     params.grid_count)
            THEN /\ exc' = "ValueError"
                 /\ pc' = ExcPc
                 /\ UNCHANGED <<quantity_per_slice, grid_levels>>
            ELSE /\ grid_levels' = calculate_grid_levels(params.lower_price,
                                       params.upper_price, params.grid_count)
                 /\ pc' = "loop"
                 /\ UNCHANGED <<exc, quantity_per_slice>>
    /\ UNCHANGED <<entry, strategy, argv, params, client, calls, live, orders, i,
                   log, ret, exit_code, sleeps, printed>>

\* variant: the delay follows every slice, the last one included
SleepsAfter_Every(k, n) == TRUE

\* if i < num_slices - 1: the delay follows slice i (0-based) of n
SleepsAfter(k, n) == k < n - 1

\* the record of time.sleep(seconds), called after k slices
SleepCall(k, seconds) == [after |-> k, seconds |-> seconds]

\* one iteration of the loop up to the sleep: submit, append, log
Submit ==
    /\ pc = "loop"
    /\ ~LoopFinished(i, LoopLen)
    /\ \E r \in CreateOutcomes :
         LET req == SequencedRequest(i)
             order == Response(Len(live) + 1, r)
         IN  /\ calls' = Append(calls, CreateCall(req, i + 1, r))
             /\ IF r \in CreateErrors
                THEN /\ ExceptSequenced(r, orders, live)
                     /\ UNCHANGED <<orders, i>>
                ELSE /\ orders' = Append(orders, order)
                     /\ IF "orderId" \notin DOMAIN order
                        THEN /\ ExceptSequenced("KeyError", orders', Placed(live, req))
                             /\ i' = i
                        ELSE /\ live' = Placed(live, req)
                             /\ log' = Append(log, Rec("info", "executed", i + 1, Total))
                             /\ i' = i + 1
                             /\ pc' = IF strategy = "twap" /\ SleepsAfter(i, params.num_slices)
                                      THEN "sleep" ELSE "loop"
                             /\ exc' = exc
    /\ UNCHANGED <<entry, strategy, argv, params, client, quantity_per_slice,
                   grid_levels, ret, exit_code, sleeps, printed>>

\* time.sleep(interval_seconds) between two slices: it raises ValueError for
\* a negative length, and KeyboardInterrupt when the user interrupts it;
\* KeyboardInterrupt is not an Exception, so no except clause of the
\* executor catches it
Sleep ==
    /\ pc = "sleep"
    /\ sleeps' = Append(sleeps, SleepCall(i, params.interval_seconds))
    /\ IF params.interval_seconds < 0
       THEN ExceptSequenced("ValueError", orders, live)
       ELSE \E interrupted \in BOOLEAN :
              IF interrupted
              THEN /\ exc' = "KeyboardInterrupt"
                   /\ pc' = ExcPc
                   /\ UNCHANGED <<log, live>>
              ELSE /\ pc' = "loop"
                   /\ UNCHANGED <<exc, log, live>>
    /\ UNCHANGED <<entry, strategy, argv, params, client, calls, orders, i,
                   quantity_per_slice, grid_levels, ret, exit_code, printed>>

\* the loop is exhausted: log the total and return the list
Return ==
    /\ pc = "loop"
    /\ LoopFinished(i, LoopLen)
    /\ log' = Append(log, Rec("info", "completed", Len(orders), Total))
    /\ ret' = orders
    /\ pc' = RetPc
    /\ UNCHANGED <<entry, strategy, argv, params, client, calls, live, orders, i,
                   quantity_per_slice, grid_levels, exc, exit_code, sleeps, printed>>

(***************************************************************************)
(* advanced/oco.py: place_oco_style_orders.                                *)
(***************************************************************************)
\* the except clauses of place_oco_style_orders and of the single-shot
\* variant: the error is logged and swallowed, the executor goes on
ExceptPlain_Swallow(e, lv) ==
    /\ log' = Append(log, Rec("error", Handler(e), 0, 0))
    /\ live' = lv
    /\ exc' = exc
    /\ pc' = IF pc = "take_profit" THEN "stop_loss" ELSE RetPc

\* executors, entered with exception e and the orders lv placed so far: log
\* the error, then re-raise; the placed orders are left as they are
ExceptPlain(e, lv) ==
    /\ log' = Append(log, Rec("error", Handler(e), 0, 0))
    /\ live' = lv
    /\ exc' = e
    /\ pc' = ExcPc

\* where place_oco_style_orders continues after the take-profit order
AfterTakeProfit == "stop_loss"

TakeProfit ==
    /\ pc = "take_profit"
    /\ \E r \in CreateOutcomes :
         LET close_side == params.side
             req == TakeProfitRequest(params.symbol, close_side, params.take_profit_price)
             take_profit_order == Response(Len(live) + 1, r)
         IN  /\ calls' = Append(calls, CreateCall(req, 1, r))
             /\ IF r \in CreateErrors
                THEN /\ ExceptPlain(r, live)
                     /\ UNCHANGED orders
                ELSE /\ orders' = Append(orders, take_profit_order)
                     /\ IF "orderId" \notin DOMAIN take_profit_order
                        THEN ExceptPlain("KeyError", Placed(live, req))
                        ELSE /\ live' = Placed(live, req)
                             /\ pc' = AfterTakeProfit
                             /\ UNCHANGED <<log, exc>>
    /\ UNCHANGED <<entry, strategy, argv, params, client, i, quantity_per_slice,
                   grid_levels, ret, exit_code, sleeps, printed>>

StopLoss ==
    /\ pc = "stop_loss"
    /\ \E r \in CreateOutcomes :
         LET close_side == params.side
             req == StopLossRequest(params.symbol, close_side, params.stop_loss_price)
             stop_loss_order == Response(Len(live) + 1, r)
         IN  /\ calls' = Append(calls, CreateCall(req, 2, r))
             /\ IF r \in CreateErrors
                THEN /\ ExceptPlain(r, live)
                     /\ UNCHANGED <<orders, ret>>
                ELSE /\ orders' = Append(orders, stop_loss_order)
                     /\ IF "orderId" \notin DOMAIN stop_loss_order
                        THEN /\ ExceptPlain("KeyError", Placed(live, req))
                             /\ ret' = ret
                        ELSE /\ live' = Placed(live, req)
                             /\ ret' = orders'
                             /\ pc' = RetPc
                             /\ UNCHANGED <<log, exc>>
    /\ UNCHANGED <<entry, strategy, argv, params, client, i, quantity_per_slice,
                   grid_levels, exit_code, sleeps, printed>>

(***************************************************************************)
(* market_orders.py, limit_orders.py, advanced/stop_limit.py: the          *)
(* single-shot executors.                                                  *)
(***************************************************************************)
SingleRequest ==
    CASE strategy = "market" ->
           MarketRequest(params.symbol, params.side, params.quantity)
      [] strategy = "limit" ->
           LimitRequest(params.symbol, params.side, params.quantity, params.price)
      [] strategy = "stop_limit" ->
           StopLimitRequest(params.symbol, params.side, params.quantity,
                            params.stop_price, params.limit_price)

\* variant: the executor returns only the status of the response
ReturnedOrder_StatusOnly(order) == [status |-> order.status]

\* return order
ReturnedOrder(order) == order

\* format_order_response reads the response with dict.get, so a response
\* without orderId raises nothing here
Single ==
    /\ pc = "single"
    /\ \E r \in CreateOutcomes :
         LET req == SingleRequest
             order == Response(Len(live) + 1, r)
         IN  /\ calls' = Append(calls, CreateCall(req, 1, r))
             /\ IF r \in CreateErrors
                THEN /\ ExceptPlain(r, live)
                     /\ UNCHANGED <<orders, ret>>
                ELSE /\ live' = Placed(live, req)
                     /\ orders' = Append(orders, order)
                     /\ ret' = ReturnedOrder(order)
                     /\ pc' = RetPc
                     /\ UNCHANGED <<log, exc>>
    /\ UNCHANGED <<entry, strategy, argv, params, client, i, quantity_per_slice,
                   grid_levels, exit_code, sleeps, printed>>

(***************************************************************************)
(* main() after the executor: the success report and the except clauses.   *)
(***************************************************************************)
\* the responses main() prints with order['orderId']
Printed == IF strategy \in {"market", "limit", "stop_limit"} THEN <<ret>> ELSE ret

MainPrint ==
    /\ pc = "main_print"
    /\ IF \E k \in 1..Len(Printed) : "orderId" \notin DOMAIN Printed[k]
       THEN /\ exc' = "KeyError"
            /\ pc' = "main_except"
            /\ UNCHANGED <<exit_code, printed>>
       ELSE /\ exit_code' = 0
            /\ printed' = "success"
            /\ pc' = "done"
            /\ exc' = exc
    /\ UNCHANGED <<entry, strategy, argv, params, client, calls, live, orders, i,
                   quantity_per_slice, grid_levels, log, ret, sleeps>>

\* the except clause of main() that catches e; only twap.py names
\* KeyboardInterrupt
MainHandler(s, e) ==
    CASE e = "ValueError" -> "ValueError"
      [] e = "BinanceAPIException" -> "BinanceAPIException"
      [] e = "KeyboardInterrupt" -> IF s = "twap" THEN "KeyboardInterrupt" ELSE "uncaught"
      [] OTHER -> "Exception"

\* what the clause prints
MainMessage(s, h) ==
    CASE h = "ValueError" -> "validation_error"
      [] h = "BinanceAPIException" ->
           IF s \in {"twap", "grid"} THEN "api_error_check_log_partial" ELSE "api_error"
      [] h = "KeyboardInterrupt" -> "interrupted_check_log"
      [] h = "Exception" ->
           IF s \in {"twap", "grid"} THEN "error_check_log" ELSE "error"
      [] OTHER -> "traceback"

\* variant: the generic clause ends the process with status 0
ExitStatus_ZeroOnFatal(h) == IF h = "Exception" THEN 0 ELSE 1

\* sys.exit(1) at the end of every except clause; an exception that no
\* clause catches ends the process with the status of an interrupt
ExitStatus(h) == IF h = "uncaught" THEN 130 ELSE 1

MainExcept ==
    /\ pc = "main_except"
    /\ LET h == MainHandler(strategy, exc)
       IN  /\ log' = CASE h = "ValueError" ->
                            Append(log, Rec("error", "validation_error", 0, 0))
                       [] h = "KeyboardInterrupt" ->
                            Append(log, Rec("warning", "interrupted", 0, 0))
                       [] h = "Exception" ->
                            Append(log, Rec("error", "fatal_error", 0, 0))
                       [] OTHER -> log
           /\ printed' = MainMessage(strategy, h)
           /\ exit_code' = ExitStatus(h)
    /\ pc' = "done"
    /\ UNCHANGED <<entry, strategy, argv, params, client, calls, live, orders, i,
                   quantity_per_slice, grid_levels, exc, ret, sleeps>>

Next ==
    \/ StartCLI
    \/ CallDirect
    \/ Main
    \/ GetClient
    \/ Prepare
    \/ Submit
    \/ Sleep
    \/ Return
    \/ TakeProfit
    \/ StopLoss
    \/ Single
    \/ MainPrint
    \/ MainExcept

Spec == Init /\ [][Next]_vars

(***************************************************************************)
(* Properties.                                                             *)
(***************************************************************************)
IsCreate(c) == c.op = "futures_create_order"

IsOkCreate(c) == c.op = "futures_create_order" /\ c.result = "ok"

\* the order submissions of the run, in order
Creates == SelectSeq(calls, IsCreate)

Sequenced == pc # "start" /\ strategy \in {"twap", "grid"}

\* the executor has been called: its arguments exist
Called == pc # "start" /\ params # NoParams

\* the executor has returned to its caller
Returned == pc \in {"main_print", "done"} /\ exc = "None" /\ calls # << >>

IsProgress(r) == r.msg = "completed_before_error"

\* the "Completed k out of N" records of the log
ProgressReports == SelectSeq(log, IsProgress)

StepsInOrder(cs) == \A k \in 1..Len(cs) : cs[k].step = k

FailureIsLast(cs) ==
    \A k \in 1..Len(cs) :
        cs[k].result # "ok" =>
            /\ k = Len(cs)
            /\ exc = cs[k].result
            /\ pc \in {"main_except", "done"}
            /\ ret = << >>

\* C1: in a TWAP or grid run the k-th submission is that of step k (strictly
\* sequential, none repeated, none skipped); a failed submission is the last
\* one of the run, and its error is the exception raised to the caller.
C1_StopOnFirstFailure ==
    Sequenced => StepsInOrder(Creates) /\ FailureIsLast(Creates)

\* a run of at least three planned submissions whose second one failed
C1_Witness ==
    /\ Sequenced
    /\ Called
    /\ pc = "done"
    /\ LoopLen >= 3
    /\ Len(Creates) = 2
    /\ Creates[2].result \in CreateErrors

\* C2: in a TWAP or grid run the list of responses is as long as the number
\* of successful submissions, and every "Completed k out of N" record written
\* on a failure carries that number; a failed submission writes one.
C2_CountMatchesSuccesses ==
    Sequenced =>
        /\ Len(orders) = Len(SelectSeq(calls, IsOkCreate))
        /\ \A k \in 1..Len(ProgressReports) :
               ProgressReports[k].k = Len(SelectSeq(calls, IsOkCreate))
        /\ (\E k \in 1..Len(calls) : IsCreate(calls[k]) /\ ~IsOkCreate(calls[k]))
               => Len(ProgressReports) = 1

\* the third of five slices failed and two completed slices are reported
C2_Witness ==
    /\ Called
    /\ strategy = "twap"
    /\ params.num_slices = 5
    /\ Len(Creates) = 3
    /\ Creates[3].result \in CreateErrors
    /\ Len(ProgressReports) = 1
    /\ ProgressReports[1].k = 2

\* C3 (as claimed): validation completes before the first network call of
\* any kind, so a run that ends with a validation error has made no network
\* call at all.
C3_ValidationBeforeNetwork ==
    (pc # "start" /\ exc = "ValueError") => calls = << >>

\* the strategy configuration the executor was called with is invalid
InvalidConfig ==
    \/ /\ strategy = "grid"
       /\ FGe(params.lower_price, params.upper_price) \/ params.grid_count < 2
    \/ /\ strategy = "twap"
       /\ FLe(params.total_quantity, Zero) \/ params.num_slices <= 0

\* C4 (as claimed): a sequenced executor called directly with an invalid
\* strategy configuration (and a client that connects) fails with a
\* validation error and submits no order.
C4_ExecutorValidatesConfig ==
    (Called /\ entry = "direct" /\ client = "Ready" /\ Sequenced /\ InvalidConfig) =>
        /\ Creates = << >>
        /\ pc = "done" => exc = "ValueError"

MarketFields == {"symbol", "side", "type", "quantity"}

IsSliceRequest(req) ==
    /\ DOMAIN req = MarketFields
    /\ req.symbol = params.symbol
    /\ req.side = params.side
    /\ req.type = "MARKET"
    /\ FMulInt(req.quantity, params.num_slices) = params.total_quantity

\* the responses are those of the submissions, in submission order
ResponsesInOrder(rs, cs) ==
    /\ Len(rs) = Len(cs)
    /\ Len(live) = Len(cs)
    /\ \A k \in 1..Len(cs) :
           /\ cs[k].result = "ok"
           /\ live[k].req = cs[k].req
           /\ rs[k].orderId = live[k].orderId

\* C5: a TWAP run with num_slices >= 1 never makes more than num_slices
\* submissions; each is a MARKET order with the given symbol and side whose
\* quantity times num_slices is total_quantity (0.1 in 5 slices: 0.02 each);
\* when the executor returns, it has made exactly num_slices submissions and
\* returns their responses in submission order.
C5_TwapSlices ==
    (Called /\ strategy = "twap" /\ params.num_slices >= 1) =>
        /\ Len(Creates) <= params.num_slices
        /\ \A k \in 1..Len(Creates) : IsSliceRequest(Creates[k].req)
        /\ (params.total_quantity = Fin(1, 10) /\ params.num_slices = 5) =>
               \A k \in 1..Len(Creates) : Creates[k].req.quantity = Fin(2, 100)
        /\ Returned =>
               /\ Len(Creates) = params.num_slices
               /\ ResponsesInOrder(ret, Creates)

\* 0.1 in five slices, all submitted, the list returned
C5_Witness ==
    /\ Called
    /\ strategy = "twap"
    /\ params.total_quantity = Fin(1, 10)
    /\ params.num_slices = 5
    /\ Returned
    /\ Len(ret) = 5

\* a valid grid configuration: finite prices, lower < upper, count >= 2
ValidGrid ==
    /\ IsFinite(params.lower_price)
    /\ IsFinite(params.upper_price)
    /\ FLt(params.lower_price, params.upper_price)
    /\ params.grid_count >= 2

LimitFields == {"symbol", "side", "type", "timeInForce", "quantity", "price"}

\* req is the BUY LIMIT GTC order of level k: its price p satisfies
\* (p - lower) * (count - 1) = (upper - lower) * (k - 1)
IsGridRequest(req, k) ==
    /\ DOMAIN req = LimitFields
    /\ req.symbol = params.symbol
    /\ req.side = BUY
    /\ req.type = "LIMIT"
    /\ req.timeInForce = "GTC"
    /\ req.quantity = params.quantity_per_grid
    /\ FMulInt(FSub(req.price, params.lower_price), params.grid_count - 1)
         = FMulInt(FSub(params.upper_price, params.lower_price), k - 1)

ExamplePrices ==
    <<Fin(50000, 1), Fin(50500, 1), Fin(51000, 1), Fin(51500, 1), Fin(52000, 1)>>

\* C6: in a grid run with a valid configuration the k-th submission is the
\* BUY LIMIT GTC order of level k with quantity_per_grid, the submitted
\* prices ascend, and there are never more than grid_count of them, so the
\* prices of a failing run are a prefix of the levels; when the executor
\* returns, it has made exactly grid_count submissions (50000..52000 in 5
\* levels: 50000, 50500, 51000, 51500, 52000).
C6_GridOrders ==
    (Called /\ strategy = "grid" /\ ValidGrid) =>
        /\ Len(Creates) <= params.grid_count
        /\ \A k \in 1..Len(Creates) : IsGridRequest(Creates[k].req, k)
        /\ \A k \in 1..(Len(Creates) - 1) :
               FLt(Creates[k].req.price, Creates[k + 1].req.price)
        /\ Returned =>
               /\ Len(Creates) = params.grid_count
               /\ ResponsesInOrder(ret, Creates)
               /\ (/\ params.lower_price = Fin(50000, 1)
                   /\ params.upper_price = Fin(52000, 1)
                   /\ params.grid_count = 5) =>
                      [k \in 1..5 |-> Creates[k].req.price] = ExamplePrices

\* the grid 50000..52000 in five levels, all placed
C6_Witness ==
    /\ Called
    /\ strategy = "grid"
    /\ params.lower_price = Fin(50000, 1)
    /\ params.upper_price = Fin(52000, 1)
    /\ params.grid_count = 5
    /\ Returned
    /\ Len(ret) = 5

\* C7 (as claimed): when the inter-slice delay of a TWAP run is interrupted,
\* no further submission is made, the placed orders stay placed, and the
\* number of slices already submitted is reported by count.
C7_InterruptReportsCount ==
    (Called /\ strategy = "twap" /\ exc = "KeyboardInterrupt" /\ pc = "done") =>
        /\ Len(Creates) = Len(orders)
        /\ Len(live) = Len(orders)
        /\ \E k \in 1..Len(log) :
               log[k].msg = "completed_before_error" /\ log[k].k = Len(orders)

\* C8 (as claimed): an OCO CLI run submits orders only when the price logic
\* holds: take_profit_price > stop_loss_price for SELL, take_profit_price <
\* stop_loss_price for BUY.
C8_OcoPriceLogic ==
    (Called /\ strategy = "oco" /\ entry = "cli" /\ Creates # << >>) =>
        IF params.side = SELL
        THEN FGt(params.take_profit_price, params.stop_loss_price)
        ELSE FLt(params.take_profit_price, params.stop_loss_price)

\* C9: place_oco_style_orders submits at most two orders, the take-profit
\* order first and the stop-loss order second; the stop-loss order is
\* submitted only after the take-profit submission succeeded, and a failed
\* take-profit submission is the only submission, its error raised to the
\* caller.
C9_TakeProfitThenStopLoss ==
    (Called /\ strategy = "oco") =>
        /\ Len(Creates) <= 2
        /\ Len(Creates) >= 1 =>
               /\ Creates[1].req.type = "TAKE_PROFIT_MARKET"
               /\ Creates[1].req.stopPrice = params.take_profit_price
               /\ Creates[1].result # "ok" =>
                      Len(Creates) = 1 /\ exc = Creates[1].result
        /\ Len(Creates) = 2 =>
               /\ Creates[1].result = "ok"
               /\ Creates[2].req.type = "STOP_MARKET"
               /\ Creates[2].req.stopPrice = params.stop_loss_price

\* the take-profit submission failed and the call is over
C9_Witness ==
    /\ Called
    /\ strategy = "oco"
    /\ pc = "done"
    /\ Len(Creates) = 1
    /\ Creates[1].result \in CreateErrors

IsPrefix(a, b) == Len(a) <= Len(b) /\ SubSeq(b, 1, Len(a)) = a

\* C10: during a run the only requests sent to the exchange are pings and
\* order submissions, and the sequence of orders the exchange has accepted
\* only grows: every step of a run keeps the orders placed before it.
C10_NoCancellation ==
    [][pc \notin {"start", "done"} =>
          /\ IsPrefix(live, live')
          /\ IsPrefix(calls, calls')
          /\ \A k \in 1..Len(calls') :
                 calls'[k].op \in {"futures_ping", "futures_create_order"}]_vars

\* an order placed earlier is still placed after a later submission failed
C10_Witness ==
    /\ pc = "done"
    /\ strategy \in {"twap", "grid", "oco"}
    /\ exc \in CreateErrors
    /\ Len(Creates) >= 2
    /\ Len(live) = Len(Creates) - 1

SingleShot == pc # "start" /\ strategy \in {"market", "limit", "stop_limit"}

\* C11: a single-shot executor (market, limit, stop-limit) makes at most one
\* submission per invocation; when it returns, it has made exactly one, which
\* succeeded, and the returned value is the client's response, unchanged;
\* when the submission failed, its error is the exception raised to the
\* caller, nothing is returned and no order is placed.
C11_SingleShotOneCall ==
    (SingleShot /\ Called) =>
        /\ Len(Creates) <= 1
        /\ Returned =>
               /\ Len(Creates) = 1
               /\ Creates[1].result = "ok"
               /\ Len(orders) = 1
               /\ ret = orders[1]
               /\ Len(live) = 1
               /\ "orderId" \in DOMAIN ret => ret.orderId = live[1].orderId
        /\ (Len(Creates) = 1 /\ Creates[1].result # "ok") =>
               /\ exc = Creates[1].result
               /\ pc \in {"main_except", "done"}
               /\ ret = << >>
               /\ orders = << >>
               /\ live = << >>

\* a limit order was submitted once and its full response returned
C11_Witness ==
    /\ SingleShot
    /\ Called
    /\ strategy = "limit"
    /\ Returned
    /\ Len(Creates) = 1
    /\ ret = [orderId |-> 1, status |-> "NEW"]

\* the single submission of a market order failed and the call is over
C11_FailureWitness ==
    /\ SingleShot
    /\ Called
    /\ strategy = "market"
    /\ pc = "done"
    /\ Len(Creates) = 1
    /\ Creates[1].result = "BinanceOrderException"

StopLimitFields == LimitFields \cup {"stopPrice"}

IsMarketPayload(req) ==
    /\ DOMAIN req = {"symbol", "side", "quantity", "type"}
    /\ req.type = "MARKET"
    /\ req.symbol = params.symbol
    /\ req.side = params.side
    /\ req.quantity = params.quantity

IsLimitPayload(req) ==
    /\ DOMAIN req = {"symbol", "side", "quantity", "type", "price", "timeInForce"}
    /\ req.type = "LIMIT"
    /\ req.timeInForce = "GTC"
    /\ req.symbol = params.symbol
    /\ req.side = params.side
    /\ req.quantity = params.quantity
    /\ req.price = params.price

IsStopLimitPayload(req) ==
    /\ DOMAIN req = StopLimitFields
    /\ req.type = "STOP"
    /\ req.timeInForce = "GTC"
    /\ req.symbol = params.symbol
    /\ req.side = params.side
    /\ req.quantity = params.quantity
    /\ req.price = params.limit_price
    /\ req.stopPrice = params.stop_price

\* the stop-limit request of a command line: argument 4 is the trigger,
\* argument 5 the limit price
IsStopLimitOfArgv(req, av) ==
    /\ req.symbol = validate_symbol(av[1]).val
    /\ req.side = validate_side(av[2]).val
    /\ req.quantity = validate_quantity(av[3])
    /\ req.stopPrice = validate_price(av[4])
    /\ req.price = validate_price(av[5])

\* C12: the request of a market order carries exactly symbol, side, quantity
\* and type = MARKET; that of a limit order carries in addition price and
\* timeInForce = GTC, with type = LIMIT; that of a stop-limit order has
\* type = STOP, timeInForce = GTC, the limit price in price and the stop price
\* in stopPrice, and on the command line the 4th argument is the stop price
\* and the 5th the limit price.
C12_RequestPayloads ==
    (SingleShot /\ Called) =>
        \A k \in 1..Len(Creates) :
            /\ strategy = "market" => IsMarketPayload(Creates[k].req)
            /\ strategy = "limit" => IsLimitPayload(Creates[k].req)
            /\ strategy = "stop_limit" => IsStopLimitPayload(Creates[k].req)
            /\ (strategy = "stop_limit" /\ entry = "cli") =>
                   IsStopLimitOfArgv(Creates[k].req, argv)

\* "stop_limit.py btcusdt BUY 0.1 52000 50000" submitted its order: trigger
\* 52000, limit price 50000
C12_Witness ==
    /\ strategy = "stop_limit"
    /\ entry = "cli"
    /\ Called
    /\ argv[4] = DecStr(52000)
    /\ argv[5] = DecStr(50000)
    /\ Len(Creates) = 1
    /\ Creates[1].req.stopPrice = Fin(52000, 1)
    /\ Creates[1].req.price = Fin(50000, 1)

\* the common difference of the levels, times (count - 1), is upper - lower
EvenlySpaced(levels, lower, upper, count) ==
    \A k \in 1..(Len(levels) - 1) :
        /\ FLt(levels[k], levels[k + 1])
        /\ FMulInt(FSub(levels[k + 1], levels[k]), count - 1) = FSub(upper, lower)

\* C13: for finite lower < upper and count >= 2 the levels computed by
\* calculate_grid_levels are exactly count, strictly increasing, the first
\* equal to lower, the last equal to upper, and consecutive levels differ by
\* (upper - lower) / (count - 1); the executor that passed its validation
\* has computed them.
C13_GridLevels ==
    (Called /\ strategy = "grid" /\ ValidGrid) =>
        /\ pc = "loop" => grid_levels # << >>
        /\ grid_levels # << >> =>
               /\ Len(grid_levels) = params.grid_count
               /\ grid_levels[1] = params.lower_price
               /\ grid_levels[Len(grid_levels)] = params.upper_price
               /\ EvenlySpaced(grid_levels, params.lower_price, params.upper_price,
                               params.grid_count)

\* the levels of -2.5 .. 50000.5 in four: the second is -2.5 + 50003/3
C13_Witness ==
    /\ Called
    /\ strategy = "grid"
    /\ params.lower_price = Fin(-5, 2)
    /\ params.upper_price = Fin(100001, 2)
    /\ params.grid_count = 4
    /\ Len(grid_levels) = 4
    /\ grid_levels[2] = Fin(99991, 6)

PositiveFinite(x) == IsFinite(x) /\ FGt(x, Zero)

AmountFields ==
    {"quantity", "total_quantity", "quantity_per_grid", "price", "stop_price",
     "limit_price", "take_profit_price", "stop_loss_price", "lower_price",
     "upper_price"}

\* C14 (as claimed): validate_quantity and validate_price return only finite
\* numbers greater than 0, so every quantity and price main() passes to its
\* executor, and every quantity, price and trigger of a submitted request of a
\* CLI run, is finite and positive.
C14_FinitePositive ==
    (Called /\ entry = "cli") =>
        /\ \A f \in DOMAIN params \cap AmountFields : PositiveFinite(params[f])
        /\ \A k \in 1..Len(Creates) :
               \A f \in DOMAIN Creates[k].req \cap {"quantity", "price", "stopPrice"} :
                   PositiveFinite(Creates[k].req[f])

\* main() has run its validators on a command line of the right length
ArgsChecked == entry = "cli" /\ pc \notin {"start", "main"} /\ Len(argv) = Argc(strategy)

RejectedSymbols == { << >>, <<"B","T","C">>, <<"B","T","C","U","S","D">>, USDT }

IsNormalSymbol(s) ==
    /\ StrStrip(s) = s
    /\ StrUpper(s) = s
    /\ EndsWith(s, USDT)
    /\ Len(s) >= 5

\* C15: a command line whose symbol is "", "BTC", "BTCUSD" or "USDT" ends with
\* a validation error before the executor is called; every symbol that
\* validate_symbol returned is trimmed, uppercase, ends with USDT and has at
\* least 5 characters, and validating it again returns the same value.
C15_SymbolNormalForm ==
    ArgsChecked =>
        /\ argv[1] \in RejectedSymbols => (exc = "ValueError" /\ params = NoParams)
        /\ Called =>
               /\ IsNormalSymbol(params.symbol)
               /\ validate_symbol(params.symbol) = [cls |-> "str", val |-> params.symbol]

\* "  btcUSDT " was validated to BTCUSDT
C15_Witness ==
    /\ ArgsChecked
    /\ Called
    /\ argv[1] \in PaddedSymbolArgs
    /\ params.symbol = BTCUSDT

\* the symbol "USDT" was rejected
C15_RejectWitness ==
    /\ ArgsChecked
    /\ argv[1] = USDT
    /\ exc = "ValueError"
    /\ pc = "done"

ExchangeErrors == {"BinanceAPIException", "BinanceOrderException"}

\* what main() prints for an API error of the running strategy
ApiErrorGuidance == MainMessage(strategy, MainHandler(strategy, "BinanceAPIException"))

IsFatal(r) == r.msg = "fatal_error"

\* C16 (as claimed): a TWAP or grid CLI run that ended with an API error or
\* with an order-rejection error of a submission has made no submission after
\* the failed one, raised that error unchanged, recorded the number of
\* completed submissions once, exited with status 1, and printed the
\* partial-progress guidance of an API error, with no further log record.
C16_SameErrorHandling ==
    (/\ Sequenced
     /\ entry = "cli"
     /\ pc = "done"
     /\ exc \in ExchangeErrors
     /\ Creates # << >>) =>
        /\ Creates[Len(Creates)].result = exc
        /\ Len(orders) = Len(Creates) - 1
        /\ Len(ProgressReports) = 1
        /\ ProgressReports[1].k = Len(Creates) - 1
        /\ exit_code = 1
        /\ printed = ApiErrorGuidance
        /\ SelectSeq(log, IsFatal) = << >>

AllCallsOk == \A k \in 1..Len(calls) : calls[k].result = "ok"

\* the executor returned and main() printed its report
Succeeded ==
    /\ Len(argv) = Argc(strategy)
    /\ Called
    /\ exc = "None"
    /\ ret # << >>
    /\ AllCallsOk
    /\ printed = "success"

\* C17: a CLI process that has ended has status 0 when the executor
\* returned and its report was printed, and status 1 otherwise: after a wrong
\* argument count, a validation error, an API error or any other error; a
\* process that has not ended has no status.
C17_ExitStatus ==
    entry = "cli" =>
        /\ pc # "done" => exit_code = -1
        /\ pc = "done" =>
               /\ exit_code = (IF Succeeded THEN 0 ELSE 1)
               /\ Len(argv) # Argc(strategy) => exit_code = 1
               /\ exc # "None" => exit_code = 1

\* a TWAP process ended with status 1 after the second slice was rejected
\* with an order error, one order placed
C17_Witness ==
    /\ entry = "cli"
    /\ pc = "done"
    /\ strategy = "twap"
    /\ exc = "BinanceOrderException"
    /\ Len(live) = 1
    /\ exit_code = 1

\* an OCO process ended with status 0 after both orders were placed
C17_SuccessWitness ==
    /\ entry = "cli"
    /\ pc = "done"
    /\ strategy = "oco"
    /\ Len(live) = 2
    /\ exit_code = 0

\* a process started with two arguments ended with status 1
C17_UsageWitness ==
    /\ entry = "cli"
    /\ pc = "done"
    /\ argv \in ShortArgs
    /\ exit_code = 1

OkCreates == SelectSeq(calls, IsOkCreate)

\* a submission of the run failed: its call raised, or its response lacked a field
SliceFailed == Creates # << >> /\ exc \in CreateErrors \cup {"KeyError"}

\* C18: in a TWAP run the k-th call of time.sleep is made with
\* interval_seconds after exactly k slices; there are never more delays than
\* successful slices nor, for num_slices >= 1, than num_slices - 1, and slice
\* k + 1 is never submitted before the k-th delay; a run that ended with a
\* failed slice k has made k - 1 delays, a run of num_slices >= 1 that
\* returned has made num_slices - 1.  A grid run makes no delay.
C18_InterSliceDelays ==
    (Called /\ Sequenced) =>
        /\ strategy = "grid" => sleeps = << >>
        /\ strategy = "twap" =>
               /\ \A k \in 1..Len(sleeps) :
                      sleeps[k] = SleepCall(k, params.interval_seconds)
               /\ Len(sleeps) <= Len(OkCreates)
               /\ params.num_slices >= 1 => Len(sleeps) <= params.num_slices - 1
               /\ Len(Creates) <= Len(sleeps) + 1
               /\ pc = "sleep" => Len(sleeps) = Len(Creates) - 1
               /\ SliceFailed => Len(sleeps) = Len(Creates) - 1
               /\ (Returned /\ params.num_slices >= 1) =>
                      Len(sleeps) = params.num_slices - 1

\* five slices returned after four delays of one second
C18_Witness ==
    /\ Called
    /\ strategy = "twap"
    /\ params.num_slices = 5
    /\ params.interval_seconds = 1
    /\ Returned
    /\ Len(sleeps) = 4
    /\ sleeps[4] = SleepCall(4, 1)

\* the third of five slices failed after two delays
C18_FailureWitness ==
    /\ Called
    /\ strategy = "twap"
    /\ params.num_slices = 5
    /\ pc = "done"
    /\ SliceFailed
    /\ Len(Creates) = 3
    /\ Len(sleeps) = 2

OcoFields == {"symbol", "side", "type", "stopPrice", "closePosition"}

\* req is the closing order of the given type and trigger: it is built from
\* symbol, side and the trigger alone
IsOcoPayload(req, type, trigger) ==
    /\ DOMAIN req = OcoFields
    /\ "quantity" \notin DOMAIN req
    /\ req.symbol = params.symbol
    /\ req.side = params.side
    /\ req.type = type
    /\ req.stopPrice = trigger
    /\ req.closePosition = "true"

\* C19: both requests of place_oco_style_orders carry the side it was called
\* with and closePosition, carry no quantity, and are determined by symbol,
\* side and the two prices alone (so runs that differ only in quantity
\* submit the same requests): the first is the TAKE_PROFIT_MARKET order
\* triggered at take_profit_price, the second the STOP_MARKET order
\* triggered at stop_loss_price.
C19_OcoRequests ==
    (Called /\ strategy = "oco") =>
        /\ Len(Creates) >= 1 =>
               IsOcoPayload(Creates[1].req, "TAKE_PROFIT_MARKET", params.take_profit_price)
        /\ Len(Creates) >= 2 =>
               IsOcoPayload(Creates[2].req, "STOP_MARKET", params.stop_loss_price)

\* a SELL call with quantity 0 placed both orders, on the SELL side
C19_Witness ==
    /\ Called
    /\ strategy = "oco"
    /\ params.side = SELL
    /\ params.quantity = Zero
    /\ Returned
    /\ Len(Creates) = 2
    /\ Creates[1].req.side = SELL
    /\ Creates[2].req.side = SELL

\* the command-line argument a is an integer greater than cap
ArgOver(a, cap) == ParseInt(a) # Err /\ ParseInt(a).val > cap

Rejected == exc = "ValueError" /\ params = NoParams /\ calls = << >>

\* C20: a TWAP command line with num_slices > 100 and a grid command line
\* with grid_count > 50 end with a validation error before the executor is
\* called and before any network call, so a CLI run never makes more than 100
\* TWAP submissions or 50 grid submissions; the executors called directly
\* with 101 slices or 51 levels raise no validation error and, when they
\* return, have submitted them all.
C20_CliCaps ==
    /\ (ArgsChecked /\ strategy = "twap") =>
           /\ ArgOver(argv[4], 100) => Rejected
           /\ Called => params.num_slices <= 100
           /\ Len(Creates) <= 100
    /\ (ArgsChecked /\ strategy = "grid") =>
           /\ ArgOver(argv[5], 50) => Rejected
           /\ Called => params.grid_count <= 50
           /\ Len(Creates) <= 50
    /\ (Called /\ entry = "direct" /\ strategy = "twap" /\ params.num_slices > 100) =>
           /\ exc # "ValueError"
           /\ Returned => Len(Creates) = params.num_slices
    /\ (Called /\ entry = "direct" /\ strategy = "grid" /\ params.grid_count > 50) =>
           /\ exc # "ValueError"
           /\ Returned => Len(Creates) = params.grid_count

\* "twap.py ... 100 1" submitted its 100 slices
C20_Witness ==
    /\ ArgsChecked
    /\ strategy = "twap"
    /\ argv[4] = DecStr(100)
    /\ Returned
    /\ Len(Creates) = 100

\* "grid.py ... 51" was rejected
C20_RejectWitness ==
    /\ ArgsChecked
    /\ strategy = "grid"
    /\ argv[5] = DecStr(51)
    /\ pc = "done"
    /\ Rejected

\* execute_twap_strategy called with 101 slices submitted them all
C20_DirectWitness ==
    /\ Called
    /\ entry = "direct"
    /\ strategy = "twap"
    /\ params.num_slices = 101
    /\ Returned
    /\ Len(Creates) = 101

\* the "... error on slice k/N" / "on grid k/N" records of the executors
IsStepError(r) ==
    r.level = "error" /\ r.msg \in {"api_error", "order_error", "unexpected_error"}

StepErrors == SelectSeq(log, IsStepError)

\* C21 (as claimed): whenever a sequenced executor has logged an error "on
\* slice k/N" or "on grid k/N", the k-th submission was attempted and is the
\* step that failed, that is the last submission of the run, also when the
\* failure came after the response was appended.
C21_ErrorNamesFailedStep ==
    (Called /\ Sequenced) =>
        \A j \in 1..Len(StepErrors) :
            /\ StepErrors[j].k <= Len(Creates)
            /\ StepErrors[j].k = Len(Creates)
            /\ StepErrors[j].n = Total

\* get_binance_client() has returned a client to the running executor
ClientReturned ==
    pc \in {"prepare", "loop", "sleep", "take_profit", "stop_loss", "single"}

\* C22 (as claimed): over any sequence of get_client calls of a process, a
\* client is returned only if futures_ping on it has succeeded, so an
\* executor never holds, and never submits an order through, a client whose
\* connection test failed or was not made.
C22_ClientTested ==
    /\ ClientReturned => client = "Ready"
    /\ (pc # "start" /\ Creates # << >>) => client = "Ready"

====
